---- MODULE Spec2Model ----
(***************************************************************************)
(* emath/src/align.rs: one- and two-dimensional alignment.                 *)
(*                                                                         *)
(* Every operation of the file is a pure function over f32 values, so the  *)
(* model has two layers:                                                   *)
(*   - a binary floating-point format with IEEE-754 semantics (round to    *)
(*     nearest, ties to even; gradual underflow; overflow to infinity;     *)
(*     NaN), scaled down from binary32 to Prec significand bits and        *)
(*     Emax + 1 binades so that it can be enumerated;                      *)
(*   - Align, Align2 and their methods, translated line by line onto that  *)
(*     arithmetic.                                                         *)
(* A call of a method is one action: it draws the arguments, evaluates the *)
(* method and records arguments and result.                                *)
(***************************************************************************)
EXTENDS Integers, FiniteSets

\* ------------------------------------------------------------------ bounds

\* Significand bits of the modelled format (binary32 has 24).
Prec == 2
\* Largest exponent step above the subnormal binade (binary32 has 253).
Emax == 2

\* ------------------------------------------------------- f32: the values

Pow2(n) == 2 ^ n

Abs(n) == IF n < 0 THEN -n ELSE n
Sgn(n) == IF n < 0 THEN -1 ELSE 1

\* A finite value is an integer count of quanta; the quantum is the smallest
\* positive (subnormal) value of the format. +0.0 and -0.0 compare equal in
\* Rust and no operation of align.rs tells them apart: they are one value.
Fin(n) == [tag |-> "fin", v |-> n]
INFINITY == [tag |-> "inf", v |-> 1]
NEG_INFINITY == [tag |-> "inf", v |-> -1]
NAN == [tag |-> "nan", v |-> 0]

\* The largest finite value (f32::MAX).
MaxFinite == (Pow2(Prec) - 1) * Pow2(Emax)

\* 1.0 is the smallest normal value: 2^(Prec-1) quanta.
One == Pow2(Prec - 1)

\* n >= 0 quanta is a value of the format: m * 2^e with m < 2^Prec, e <= Emax.
IsRepr(n) == \E e \in 0..Emax : n % Pow2(e) = 0 /\ n \div Pow2(e) < Pow2(Prec)

Finite == {Fin(n) : n \in {k \in -MaxFinite..MaxFinite : IsRepr(Abs(k))}}
F32 == Finite \cup {INFINITY, NEG_INFINITY, NAN}

IsNan(a) == a.tag = "nan"
IsFinite(a) == a.tag = "fin"
IsInf(a) == a.tag = "inf"

\* --------------------------------------------------- f32: the arithmetic

\* n/d (d > 0, n >= 0) rounded to the nearest integer, ties to the even one.
RoundHalfEven(n, d) ==
    LET q == n \div d
        r == n % d
    IN  IF 2 * r < d THEN q
        ELSE IF 2 * r > d THEN q + 1
        ELSE IF q % 2 = 0 THEN q ELSE q + 1

\* The exponent step of the binade that holds n/d >= 0 (below 2^(Prec+Emax)).
Binade(n, d) ==
    CHOOSE e \in 0..Emax :
        /\ n < Pow2(Prec + e) * d
        /\ e = 0 \/ n >= Pow2(Prec + e - 1) * d

\* The exact rational n/d quanta (d > 0) rounded to the format.
Round(n, d) ==
    LET abs == Abs(n)
        inf == IF n < 0 THEN NEG_INFINITY ELSE INFINITY
    IN  IF abs >= Pow2(Prec + Emax) * d THEN inf
        ELSE LET e == Binade(abs, d)
                 mag == RoundHalfEven(abs, d * Pow2(e)) * Pow2(e)
             IN  IF mag > MaxFinite THEN inf ELSE Fin(Sgn(n) * mag)

FNeg(a) == IF IsNan(a) THEN NAN ELSE [a EXCEPT !.v = -a.v]

\* a + b
FAdd(a, b) ==
    IF IsNan(a) \/ IsNan(b) THEN NAN
    ELSE IF IsInf(a) /\ IsInf(b) THEN (IF a.v = b.v THEN a ELSE NAN)
    ELSE IF IsInf(a) THEN a
    ELSE IF IsInf(b) THEN b
    ELSE Round(a.v + b.v, 1)

\* a - b
FSub(a, b) == FAdd(a, FNeg(b))

\* a * b
FMul(a, b) ==
    IF IsNan(a) \/ IsNan(b) THEN NAN
    ELSE IF IsInf(a) \/ IsInf(b)
         THEN (IF a.v = 0 \/ b.v = 0 THEN NAN
               ELSE IF Sgn(a.v) = Sgn(b.v) THEN INFINITY ELSE NEG_INFINITY)
    ELSE Round(a.v * b.v, One)

\* a / b
FDiv(a, b) ==
    IF IsNan(a) \/ IsNan(b) THEN NAN
    ELSE IF IsInf(a)
         THEN (IF IsInf(b) THEN NAN
               ELSE IF Sgn(a.v) = Sgn(b.v) THEN INFINITY ELSE NEG_INFINITY)
    ELSE IF IsInf(b) THEN Fin(0)
    ELSE IF b.v = 0
         THEN (IF a.v = 0 THEN NAN
               ELSE IF a.v > 0 THEN INFINITY ELSE NEG_INFINITY)
    ELSE Round(Sgn(b.v) * a.v * One, Abs(b.v))

\* a == b (PartialEq for f32: NaN equals nothing)
FEq(a, b) == ~IsNan(a) /\ ~IsNan(b) /\ a = b

\* a <= b (PartialOrd for f32: false when either is NaN)
Key(a) == IF IsInf(a) THEN a.v * (MaxFinite + 1) ELSE a.v
FLe(a, b) == ~IsNan(a) /\ ~IsNan(b) /\ Key(a) <= Key(b)

\* The literals of align.rs.
Lit0 == Fin(0)
LitHalf == Fin(One \div 2)
Lit1 == Fin(One)
Lit2 == Fin(2 * One)

\* ------------------------------------------------------------------ Align

Align == {"Min", "Center", "Max"}

\* Align::LEFT, RIGHT, TOP, BOTTOM
LEFT == "Min"
RIGHT == "Max"
TOP == "Min"
BOTTOM == "Max"

to_factor(self) ==
    CASE self = "Min" -> Lit0
      [] self = "Center" -> LitHalf
      [] self = "Max" -> Lit1

to_sign(self) ==
    CASE self = "Min" -> FNeg(Lit1)
      [] self = "Center" -> Lit0
      [] self = "Max" -> Lit1

\* RangeInclusive<f32>
Range(lo, hi) == [start |-> lo, end |-> hi]

\* Mutant: Center's upper bound taken from the midpoint, not from the lower bound.
align_size_within_range_from_mid(self, size, range) ==
    LET min == range.start
        max == range.end
    IN  CASE self = "Min" -> Range(min, FAdd(min, size))
          [] self = "Center" ->
                IF FEq(size, INFINITY)
                THEN Range(NEG_INFINITY, INFINITY)
                ELSE LET mid == FDiv(FAdd(min, max), Lit2)
                     IN  Range(FSub(mid, FDiv(size, Lit2)), FAdd(mid, FDiv(size, Lit2)))
          [] self = "Max" -> Range(FSub(max, size), max)

\* Mutant: no special case for an infinite size in the Center branch.
align_size_within_range_no_guard(self, size, range) ==
    LET min == range.start
        max == range.end
    IN  CASE self = "Min" -> Range(min, FAdd(min, size))
          [] self = "Center" ->
                LET left == FSub(FDiv(FAdd(min, max), Lit2), FDiv(size, Lit2))
                IN  Range(left, FAdd(left, size))
          [] self = "Max" -> Range(FSub(max, size), max)

\* Mutant: Max puts the content after the frame's end instead of before it.
align_size_within_range_max_after(self, size, range) ==
    LET min == range.start
        max == range.end
    IN  CASE self = "Min" -> Range(min, FAdd(min, size))
          [] self = "Center" ->
                IF FEq(size, INFINITY)
                THEN Range(NEG_INFINITY, INFINITY)
                ELSE LET left == FSub(FDiv(FAdd(min, max), Lit2), FDiv(size, Lit2))
                     IN  Range(left, FAdd(left, size))
          [] self = "Max" -> Range(max, FAdd(max, size))

align_size_within_range(self, size, range) ==
    LET min == range.start
        max == range.end
    IN  CASE self = "Min" -> Range(min, FAdd(min, size))
          [] self = "Center" ->
                IF FEq(size, INFINITY)
                THEN Range(NEG_INFINITY, INFINITY)
                ELSE LET left == FSub(FDiv(FAdd(min, max), Lit2), FDiv(size, Lit2))
                     IN  Range(left, FAdd(left, size))
          [] self = "Max" -> Range(FSub(max, size), max)

\* ----------------------------------------------------------------- Align2

\* Align2(pub [Align; 2]): index 1 is self.0[0], index 2 is self.0[1].
\* Mutant: the two axes of LEFT_BOTTOM written in the wrong order.
LEFT_BOTTOM_transposed == <<"Max", "Min">>

LEFT_BOTTOM == <<"Min", "Max">>
LEFT_CENTER == <<"Min", "Center">>
LEFT_TOP == <<"Min", "Min">>
CENTER_BOTTOM == <<"Center", "Max">>
CENTER_CENTER == <<"Center", "Center">>
CENTER_TOP == <<"Center", "Min">>
RIGHT_BOTTOM == <<"Max", "Max">>
RIGHT_CENTER == <<"Max", "Center">>
RIGHT_TOP == <<"Max", "Min">>

\* The associated constants of Align2, by name.
ConstNames ==
    {"LEFT_BOTTOM", "LEFT_CENTER", "LEFT_TOP", "CENTER_BOTTOM", "CENTER_CENTER",
     "CENTER_TOP", "RIGHT_BOTTOM", "RIGHT_CENTER", "RIGHT_TOP"}

Const(name) ==
    CASE name = "LEFT_BOTTOM" -> LEFT_BOTTOM
      [] name = "LEFT_CENTER" -> LEFT_CENTER
      [] name = "LEFT_TOP" -> LEFT_TOP
      [] name = "CENTER_BOTTOM" -> CENTER_BOTTOM
      [] name = "CENTER_CENTER" -> CENTER_CENTER
      [] name = "CENTER_TOP" -> CENTER_TOP
      [] name = "RIGHT_BOTTOM" -> RIGHT_BOTTOM
      [] name = "RIGHT_CENTER" -> RIGHT_CENTER
      [] name = "RIGHT_TOP" -> RIGHT_TOP

\* Every value of the type: the field is public, any pair can be built.
Align2 == Align \X Align

x(self) == self[1]
y(self) == self[2]

\* ------------------------------------------- geometry (emath: Pos2, Vec2, Rect)

pos2(px, py) == [x |-> px, y |-> py]
vec2(vx, vy) == [x |-> vx, y |-> vy]

\* Rect { min: Pos2, max: Pos2 }
RectOf(mn, mx) == [min |-> mn, max |-> mx]

left(rect) == rect.min.x
right(rect) == rect.max.x
top(rect) == rect.min.y
bottom(rect) == rect.max.y
width(rect) == FSub(rect.max.x, rect.min.x)
height(rect) == FSub(rect.max.y, rect.min.y)
rect_size(rect) == vec2(width(rect), height(rect))
center(rect) ==
    pos2(FDiv(FAdd(rect.min.x, rect.max.x), Lit2),
         FDiv(FAdd(rect.min.y, rect.max.y), Lit2))
x_range(rect) == Range(rect.min.x, rect.max.x)
y_range(rect) == Range(rect.min.y, rect.max.y)
from_min_size(mn, sz) == RectOf(mn, pos2(FAdd(mn.x, sz.x), FAdd(mn.y, sz.y)))
from_x_y_ranges(xr, yr) == RectOf(pos2(xr.start, yr.start), pos2(xr.end, yr.end))

\* ------------------------------------------------------- Align2's methods

to_sign2(self) == vec2(to_sign(x(self)), to_sign(y(self)))

\* Mutant: Center shifts back by the full extent (the factor 0.5 is lost).
anchor_rect_full_shift(self, rect) ==
    LET ax == CASE x(self) = "Min" -> left(rect)
                [] x(self) = "Center" -> FSub(left(rect), width(rect))
                [] x(self) = "Max" -> FSub(left(rect), width(rect))
        ay == CASE y(self) = "Min" -> top(rect)
                [] y(self) = "Center" -> FSub(top(rect), height(rect))
                [] y(self) = "Max" -> FSub(top(rect), height(rect))
    IN  from_min_size(pos2(ax, ay), rect_size(rect))

\* Mutant: the shift is added instead of subtracted.
anchor_rect_forward(self, rect) ==
    LET ax == CASE x(self) = "Min" -> left(rect)
                [] x(self) = "Center" -> FAdd(left(rect), FMul(LitHalf, width(rect)))
                [] x(self) = "Max" -> FAdd(left(rect), width(rect))
        ay == CASE y(self) = "Min" -> top(rect)
                [] y(self) = "Center" -> FAdd(top(rect), FMul(LitHalf, height(rect)))
                [] y(self) = "Max" -> FAdd(top(rect), height(rect))
    IN  from_min_size(pos2(ax, ay), rect_size(rect))

anchor_rect(self, rect) ==
    LET ax == CASE x(self) = "Min" -> left(rect)
                [] x(self) = "Center" -> FSub(left(rect), FMul(LitHalf, width(rect)))
                [] x(self) = "Max" -> FSub(left(rect), width(rect))
        ay == CASE y(self) = "Min" -> top(rect)
                [] y(self) = "Center" -> FSub(top(rect), FMul(LitHalf, height(rect)))
                [] y(self) = "Max" -> FSub(top(rect), height(rect))
    IN  from_min_size(pos2(ax, ay), rect_size(rect))

\* Mutant: the vertical extent is aligned with the horizontal alignment.
align_size_within_rect_x_twice(self, sz, frame) ==
    LET xr == align_size_within_range(x(self), sz.x, x_range(frame))
        yr == align_size_within_range(x(self), sz.y, y_range(frame))
    IN  from_x_y_ranges(xr, yr)

align_size_within_rect(self, sz, frame) ==
    LET xr == align_size_within_range(x(self), sz.x, x_range(frame))
        yr == align_size_within_range(y(self), sz.y, y_range(frame))
    IN  from_x_y_ranges(xr, yr)

\* Mutant: Min and Max pick each other's bound.
pos_in_rect_swapped(self, frame) ==
    LET px == CASE x(self) = "Min" -> right(frame)
                [] x(self) = "Center" -> center(frame).x
                [] x(self) = "Max" -> left(frame)
        py == CASE y(self) = "Min" -> bottom(frame)
                [] y(self) = "Center" -> center(frame).y
                [] y(self) = "Max" -> top(frame)
    IN  pos2(px, py)

pos_in_rect(self, frame) ==
    LET px == CASE x(self) = "Min" -> left(frame)
                [] x(self) = "Center" -> center(frame).x
                [] x(self) = "Max" -> right(frame)
        py == CASE y(self) = "Min" -> top(frame)
                [] y(self) = "Center" -> center(frame).y
                [] y(self) = "Max" -> bottom(frame)
    IN  pos2(px, py)

center_size_in_rect(sz, frame) == align_size_within_rect(CENTER_CENTER, sz, frame)

\* ------------------------------------------------------------ the arguments

\* Coordinates of the rectangles given to anchor_rect and pos_in_rect: the
\* values of magnitude up to MaxCoord quanta, the two largest finite values
\* and the infinities.
MaxCoord == 2
Coord ==
    {f \in Finite : Abs(f.v) <= MaxCoord \/ Abs(f.v) = MaxFinite}
        \cup {INFINITY, NEG_INFINITY}

\* Coordinates given to the six-argument align_size_within_rect.
MaxCoord2 == 1
Coord2 == {f \in Finite : 0 <= f.v /\ f.v <= MaxCoord2} \cup {INFINITY}

Rects(C) == {RectOf(pos2(x0, y0), pos2(x1, y1)) : x0 \in C, y0 \in C, x1 \in C, y1 \in C}
Vec2s(C) == {vec2(vx, vy) : vx \in C, vy \in C}

\* ------------------------------------------------------------------ state

VARIABLES
    pc,         \* "idle", or the name of the call that has returned
    align,      \* receiver of an Align method
    size,       \* f32 argument
    range,      \* RangeInclusive<f32> argument
    align2,     \* receiver of an Align2 method
    name,       \* the Align2 constant the receiver was written as, or "none"
    vsize,      \* Vec2 argument
    rect,       \* Rect argument
    ret_f32,    \* f32 returned
    ret_align,  \* Align returned
    ret_range,  \* RangeInclusive<f32> returned
    ret_vec,    \* Pos2 or Vec2 returned
    ret_rect    \* Rect returned

args == <<align, size, range, align2, name, vsize, rect>>
rets == <<ret_f32, ret_align, ret_range, ret_vec, ret_rect>>
vars == <<pc, args, rets>>

ZeroRect == RectOf(pos2(Lit0, Lit0), pos2(Lit0, Lit0))

Init ==
    /\ pc = "idle"
    /\ align = "Min"
    /\ size = Lit0
    /\ range = Range(Lit0, Lit0)
    /\ align2 = LEFT_TOP
    /\ name = "none"
    /\ vsize = vec2(Lit0, Lit0)
    /\ rect = ZeroRect
    /\ ret_f32 = Lit0
    /\ ret_align = "Min"
    /\ ret_range = Range(Lit0, Lit0)
    /\ ret_vec = vec2(Lit0, Lit0)
    /\ ret_rect = ZeroRect

\* Align::to_factor(self)
CallToFactor ==
    /\ pc = "idle"
    /\ \E a \in Align :
        /\ align' = a
        /\ ret_f32' = to_factor(a)
    /\ pc' = "to_factor"
    /\ UNCHANGED <<size, range, align2, name, vsize, rect>>
    /\ UNCHANGED <<ret_align, ret_range, ret_vec, ret_rect>>

\* Align::to_sign(self)
CallToSign ==
    /\ pc = "idle"
    /\ \E a \in Align :
        /\ align' = a
        /\ ret_f32' = to_sign(a)
    /\ pc' = "to_sign"
    /\ UNCHANGED <<size, range, align2, name, vsize, rect>>
    /\ UNCHANGED <<ret_align, ret_range, ret_vec, ret_rect>>

\* Align::align_size_within_range(self, size, range)
CallAlignSizeWithinRange ==
    /\ pc = "idle"
    /\ \E a \in Align, s \in F32, lo \in F32, hi \in F32 :
        /\ align' = a
        /\ size' = s
        /\ range' = Range(lo, hi)
        /\ ret_range' = align_size_within_range(a, s, Range(lo, hi))
    /\ pc' = "align_size_within_range"
    /\ UNCHANGED <<align2, name, vsize, rect>>
    /\ UNCHANGED <<ret_f32, ret_align, ret_vec, ret_rect>>

\* Align2::NAME.x()
CallX ==
    /\ pc = "idle"
    /\ \E n \in ConstNames :
        /\ name' = n
        /\ align2' = Const(n)
        /\ ret_align' = x(Const(n))
    /\ pc' = "x"
    /\ UNCHANGED <<align, size, range, vsize, rect>>
    /\ UNCHANGED <<ret_f32, ret_range, ret_vec, ret_rect>>

\* Align2::NAME.y()
CallY ==
    /\ pc = "idle"
    /\ \E n \in ConstNames :
        /\ name' = n
        /\ align2' = Const(n)
        /\ ret_align' = y(Const(n))
    /\ pc' = "y"
    /\ UNCHANGED <<align, size, range, vsize, rect>>
    /\ UNCHANGED <<ret_f32, ret_range, ret_vec, ret_rect>>

\* Align2::to_sign(self)
CallToSign2 ==
    /\ pc = "idle"
    /\ \E a \in Align2 :
        /\ align2' = a
        /\ ret_vec' = to_sign2(a)
    /\ pc' = "to_sign2"
    /\ UNCHANGED <<align, size, range, name, vsize, rect>>
    /\ UNCHANGED <<ret_f32, ret_align, ret_range, ret_rect>>

\* Align2::anchor_rect(self, rect)
CallAnchorRect ==
    /\ pc = "idle"
    /\ \E a \in Align2, r \in Rects(Coord) :
        /\ align2' = a
        /\ rect' = r
        /\ ret_rect' = anchor_rect(a, r)
    /\ pc' = "anchor_rect"
    /\ UNCHANGED <<align, size, range, name, vsize>>
    /\ UNCHANGED <<ret_f32, ret_align, ret_range, ret_vec>>

\* Align2::pos_in_rect(self, &frame)
CallPosInRect ==
    /\ pc = "idle"
    /\ \E a \in Align2, r \in Rects(Coord) :
        /\ align2' = a
        /\ rect' = r
        /\ ret_vec' = pos_in_rect(a, r)
    /\ pc' = "pos_in_rect"
    /\ UNCHANGED <<align, size, range, name, vsize>>
    /\ UNCHANGED <<ret_f32, ret_align, ret_range, ret_rect>>

\* self.pos_in_rect(&r) on the rectangle r that self.anchor_rect(rect) returned
CallPosInAnchored ==
    /\ pc = "anchor_rect"
    /\ ret_vec' = pos_in_rect(align2, ret_rect)
    /\ pc' = "pos_in_anchored"
    /\ UNCHANGED args
    /\ UNCHANGED <<ret_f32, ret_align, ret_range, ret_rect>>

\* Align2::align_size_within_rect(self, size, frame)
CallAlignSizeWithinRect ==
    /\ pc = "idle"
    /\ \E a \in Align2, s \in Vec2s(Coord2), r \in Rects(Coord2) :
        /\ align2' = a
        /\ vsize' = s
        /\ rect' = r
        /\ ret_rect' = align_size_within_rect(a, s, r)
    /\ pc' = "align_size_within_rect"
    /\ UNCHANGED <<align, size, range, name>>
    /\ UNCHANGED <<ret_f32, ret_align, ret_range, ret_vec>>

\* center_size_in_rect(size, frame)
CallCenterSizeInRect ==
    /\ pc = "idle"
    /\ \E s \in Vec2s(Coord2), r \in Rects(Coord2) :
        /\ vsize' = s
        /\ rect' = r
        /\ ret_rect' = center_size_in_rect(s, r)
    /\ pc' = "center_size_in_rect"
    /\ UNCHANGED <<align, size, range, align2, name>>
    /\ UNCHANGED <<ret_f32, ret_align, ret_range, ret_vec>>

Next ==
    \/ CallToFactor
    \/ CallToSign
    \/ CallAlignSizeWithinRange
    \/ CallX
    \/ CallY
    \/ CallToSign2
    \/ CallAnchorRect
    \/ CallPosInRect
    \/ CallPosInAnchored
    \/ CallAlignSizeWithinRect
    \/ CallCenterSizeInRect

Spec == Init /\ [][Next]_vars

\* ================================================================ the claims

\* r1 == r2 for RangeInclusive<f32> (PartialEq: both bounds equal, NaN equals nothing)
RangeEq(r1, r2) == FEq(r1.start, r2.start) /\ FEq(r1.end, r2.end)

\* The rational n/d quanta is a value of the format: computing it rounds nothing.
Exact(n, d) == n % d = 0 /\ IsRepr(Abs(n \div d))

RangeReturned == pc = "align_size_within_range"
FiniteArgs == IsFinite(size) /\ IsFinite(range.start) /\ IsFinite(range.end)

\* Every operation of the Center branch is exact on the arguments.
CenterExact ==
    LET sum == range.start.v + range.end.v
    IN  /\ Exact(sum, 1)
        /\ Exact(sum, 2)
        /\ Exact(size.v, 2)
        /\ Exact(sum - size.v, 2)
        /\ Exact(sum + size.v, 2)

\* The range the spec's formulas give, each operation evaluated in f32.
SpecRange ==
    LET mid == FDiv(FAdd(range.start, range.end), Lit2)
        half == FDiv(size, Lit2)
    IN  CASE align = "Min" -> Range(range.start, FAdd(range.start, size))
          [] align = "Center" -> Range(FSub(mid, half), FAdd(mid, half))
          [] align = "Max" -> Range(FSub(range.end, size), range.end)

\* C1 as stated: for finite size and finite bounds the result is [min, min+size]
\* (Min), [max-size, max] (Max), [(min+max)/2 - size/2, (min+max)/2 + size/2]
\* (Center).
C1_Original == RangeReturned /\ FiniteArgs => RangeEq(ret_range, SpecRange)

\* C1 as amended: for finite size and finite bounds the result is [min, min+size]
\* (Min), [max-size, max] (Max) and, for Center, [left, left+size] with
\* left = (min+max)/2 - size/2, each operation rounded; the Center result is the
\* range of width size symmetric about (min+max)/2 whenever these operations
\* are exact.
C1_Amended ==
    RangeReturned /\ FiniteArgs =>
        LET lower == FSub(FDiv(FAdd(range.start, range.end), Lit2), FDiv(size, Lit2))
            sum == range.start.v + range.end.v
        IN  /\ align = "Min" =>
                RangeEq(ret_range, Range(range.start, FAdd(range.start, size)))
            /\ align = "Max" =>
                RangeEq(ret_range, Range(FSub(range.end, size), range.end))
            /\ align = "Center" =>
                RangeEq(ret_range, Range(lower, FAdd(lower, size)))
            /\ align = "Center" /\ CenterExact =>
                /\ ret_range = Range(Fin((sum - size.v) \div 2), Fin((sum + size.v) \div 2))
                /\ ret_range.start.v + ret_range.end.v = sum
                /\ ret_range.end.v - ret_range.start.v = size.v

\* C1's case: a centred finite size strictly inside a wider finite range, placed
\* symmetrically with room on both sides.
C1_Witness ==
    /\ RangeReturned /\ FiniteArgs /\ align = "Center" /\ CenterExact
    /\ size.v > 0
    /\ range.start.v < ret_range.start.v
    /\ ret_range.end.v < range.end.v
    /\ ret_range.start.v - range.start.v = range.end.v - ret_range.end.v

\* C2 as stated: with size = +infinity, Min gives [min, +infinity] and Max gives
\* [-infinity, max] for every range with finite or infinite bounds, and no
\* bound of the result is NaN.
C2_Claim ==
    RangeReturned /\ size = INFINITY /\ ~IsNan(range.start) /\ ~IsNan(range.end) =>
        /\ align = "Min" => RangeEq(ret_range, Range(range.start, INFINITY))
        /\ align = "Max" => RangeEq(ret_range, Range(NEG_INFINITY, range.end))
        /\ align # "Center" => ~IsNan(ret_range.start) /\ ~IsNan(ret_range.end)

\* C3: with size = +infinity, Center gives exactly [-infinity, +infinity],
\* whatever the bounds of the range (NaN included).
C3_InfiniteCenter ==
    RangeReturned /\ align = "Center" /\ size = INFINITY =>
        ret_range = Range(NEG_INFINITY, INFINITY)

\* C3's case: an infinite size centred in the range [-infinity, +infinity],
\* where the midpoint arithmetic would give NaN.
C3_Witness ==
    /\ RangeReturned /\ align = "Center" /\ size = INFINITY
    /\ range = Range(NEG_INFINITY, INFINITY)
    /\ ret_range = Range(NEG_INFINITY, INFINITY)

\* C4 as stated: for every alignment and every range with min <= max, a size of
\* zero gives a zero-width range inside the range: min <= lower = upper <= max.
C4_Claim ==
    RangeReturned /\ size = Lit0 /\ FLe(range.start, range.end) =>
        /\ FEq(ret_range.start, ret_range.end)
        /\ FLe(range.start, ret_range.start)
        /\ FLe(ret_range.end, range.end)

\* ---- Align2

FiniteRect(r) ==
    IsFinite(r.min.x) /\ IsFinite(r.min.y) /\ IsFinite(r.max.x) /\ IsFinite(r.max.y)

\* C5: align_size_within_rect returns the rectangle whose x-range is
\* x().align_size_within_range(size.x, frame.x_range) and whose y-range is
\* y().align_size_within_range(size.y, frame.y_range): each range of the
\* result is a function of that axis's alignment, size and frame range alone;
\* with LEFT_TOP the result's min corner is the frame's min corner.
C5_PerAxis ==
    pc = "align_size_within_rect" =>
        /\ x_range(ret_rect)
               = align_size_within_range(align2[1], vsize.x, Range(rect.min.x, rect.max.x))
        /\ y_range(ret_rect)
               = align_size_within_range(align2[2], vsize.y, Range(rect.min.y, rect.max.y))
        /\ align2 = LEFT_TOP => ret_rect.min = rect.min

\* C5's case: the two axes aligned differently, with different sizes, in a frame
\* whose two ranges differ, and the two resulting ranges differ.
C5_Witness ==
    /\ pc = "align_size_within_rect"
    /\ align2 = RIGHT_TOP
    /\ vsize = vec2(Lit0, INFINITY)
    /\ rect = RectOf(pos2(Lit0, Fin(1)), pos2(Fin(1), Fin(1)))
    /\ ret_rect = RectOf(pos2(Fin(1), Fin(1)), pos2(Fin(1), INFINITY))

\* The integers (in quanta) anchor_rect works with on one axis: the extent, the
\* shift and the new origin, in exact arithmetic.
Extent(lo, hi) == hi.v - lo.v
Shift(a, lo, hi) ==
    CASE a = "Min" -> 0
      [] a = "Center" -> Extent(lo, hi) \div 2
      [] a = "Max" -> Extent(lo, hi)
Origin(a, lo, hi) == lo.v - Shift(a, lo, hi)

\* Every operation of anchor_rect on the axis [lo, hi] is exact.
AnchorExact(a, lo, hi) ==
    /\ Exact(Extent(lo, hi), 1)
    /\ a = "Center" => Exact(Extent(lo, hi), 2)
    /\ Exact(Origin(a, lo, hi), 1)
    /\ Exact(Origin(a, lo, hi) + Extent(lo, hi), 1)

\* C6 as stated: for a finite rect, anchor_rect returns a rectangle of the same
\* width and height whose origin on each axis is
\* min - to_factor() * extent.
C6_Original ==
    pc = "anchor_rect" /\ FiniteRect(rect) =>
        /\ FEq(width(ret_rect), width(rect))
        /\ FEq(height(ret_rect), height(rect))
        /\ FEq(left(ret_rect),
               FSub(left(rect), FMul(to_factor(x(align2)), width(rect))))
        /\ FEq(top(ret_rect),
               FSub(top(rect), FMul(to_factor(y(align2)), height(rect))))

\* One axis of C6 as amended; a is the alignment, [lo, hi] the axis of rect,
\* [rlo, rhi] the axis of the returned rectangle.
C6_Axis(a, lo, hi, rlo, rhi) ==
    LET e == FSub(hi, lo)
    IN  /\ a = "Min" => rlo = lo
        /\ a = "Center" => rlo = FSub(lo, FMul(LitHalf, e))
        /\ a = "Max" => rlo = FSub(lo, e)
        /\ IsFinite(e) => rlo = FSub(lo, FMul(to_factor(a), e))
        /\ rhi = FAdd(rlo, e)
        /\ AnchorExact(a, lo, hi) =>
            /\ rlo = Fin(Origin(a, lo, hi))
            /\ rhi = Fin(Origin(a, lo, hi) + Extent(lo, hi))
            /\ FSub(rhi, rlo) = e

\* C6 as amended: for a finite rect, the origin on each axis is rect's min (Min),
\* min - 0.5 * extent (Center), min - extent (Max), which is
\* min - to_factor() * extent whenever the extent max - min is finite; the max
\* corner is origin + extent; width and height are those of rect whenever these
\* operations are exact.
C6_Amended ==
    pc = "anchor_rect" /\ FiniteRect(rect) =>
        /\ C6_Axis(x(align2), rect.min.x, rect.max.x, ret_rect.min.x, ret_rect.max.x)
        /\ C6_Axis(y(align2), rect.min.y, rect.max.y, ret_rect.min.y, ret_rect.max.y)

\* C6's case: a rectangle with different even extents anchored at its centre on
\* x and at its max on y, all operations exact: the size is kept.
C6_Witness ==
    /\ pc = "anchor_rect" /\ align2 = CENTER_BOTTOM
    /\ rect = RectOf(pos2(Lit0, Fin(1)), pos2(Fin(2), Fin(2)))
    /\ ret_rect = RectOf(pos2(Fin(-1), Lit0), pos2(Fin(1), Fin(1)))
    /\ width(ret_rect) = width(rect) /\ height(ret_rect) = height(rect)

\* The point of the axis [lo, hi] that alignment a names; the midpoint is
\* (lo + hi) / 2 in f32.
PosOnAxis(a, lo, hi) ==
    CASE a = "Min" -> lo
      [] a = "Center" -> FDiv(FAdd(lo, hi), Lit2)
      [] a = "Max" -> hi

Horizontal(n) ==
    IF n \in {"LEFT_BOTTOM", "LEFT_CENTER", "LEFT_TOP"} THEN LEFT
    ELSE IF n \in {"RIGHT_BOTTOM", "RIGHT_CENTER", "RIGHT_TOP"} THEN RIGHT
    ELSE "Center"
Vertical(n) ==
    IF n \in {"LEFT_TOP", "CENTER_TOP", "RIGHT_TOP"} THEN TOP
    ELSE IF n \in {"LEFT_BOTTOM", "CENTER_BOTTOM", "RIGHT_BOTTOM"} THEN BOTTOM
    ELSE "Center"

\* C8: x() of a named constant is the Align of the first word of its name, y()
\* that of the second word; the nine constants are pairwise different and every
\* pair of Align values is the value of exactly one of them.
C8_Constants ==
    /\ pc = "x" => ret_align = Horizontal(name)
    /\ pc = "y" => ret_align = Vertical(name)
    /\ pc \in {"x", "y"} =>
        /\ \A n1 \in ConstNames, n2 \in ConstNames : n1 # n2 => Const(n1) # Const(n2)
        /\ \A p \in Align \X Align : Cardinality({n \in ConstNames : Const(n) = p}) = 1

\* C8's case: y() of RIGHT_BOTTOM has returned Max.
C8_Witness == pc = "y" /\ name = "RIGHT_BOTTOM" /\ align2 = <<"Max", "Max">> /\ ret_align = "Max"

\* The arguments C9 is about: a finite range with min <= max and a finite size
\* with 0 <= size <= max - min (in exact arithmetic).
Fits ==
    /\ RangeReturned /\ FiniteArgs
    /\ range.start.v <= range.end.v
    /\ 0 <= size.v
    /\ size.v <= range.end.v - range.start.v

\* Every operation of the branch taken is exact on the arguments.
BranchExact ==
    CASE align = "Min" -> Exact(range.start.v + size.v, 1)
      [] align = "Center" -> CenterExact
      [] align = "Max" -> Exact(range.end.v - size.v, 1)

Contained ==
    /\ FLe(range.start, ret_range.start)
    /\ FLe(ret_range.start, ret_range.end)
    /\ FLe(ret_range.end, range.end)

\* C9 as stated: a size that fits is returned as a range of width exactly size
\* contained in [min, max].
C9_Original ==
    Fits => FEq(FSub(ret_range.end, ret_range.start), size) /\ Contained

\* C9 as amended: for a size that fits, the returned range is never inverted;
\* with Min and Max it is contained in [min, max]; for every alignment it has
\* width exactly size and is contained in [min, max] whenever the operations
\* of its branch are exact.
C9_Amended ==
    Fits =>
        /\ FLe(ret_range.start, ret_range.end)
        /\ align # "Center" => Contained
        /\ BranchExact =>
            /\ FEq(FSub(ret_range.end, ret_range.start), size)
            /\ ret_range.end.v - ret_range.start.v = size.v
            /\ Contained

\* C9's case: a positive size smaller than the frame, flush with the frame's
\* end under Max.
C9_Witness ==
    /\ Fits /\ align = "Max" /\ BranchExact
    /\ 0 < size.v /\ size.v < range.end.v - range.start.v
    /\ ret_range.end = range.end
    /\ ret_range.start.v = range.end.v - size.v

\* C10 as stated: for a finite rect, pos_in_rect of the anchored rectangle is
\* rect's min corner.
C10_Original ==
    pc = "pos_in_anchored" /\ FiniteRect(rect) =>
        FEq(ret_vec.x, rect.min.x) /\ FEq(ret_vec.y, rect.min.y)

\* One axis of C10 as amended.
C10_Axis(a, lo, hi, p) ==
    /\ a = "Min" => p = lo
    /\ a = "Max" /\ AnchorExact(a, lo, hi) => p = lo
    /\ a = "Center" /\ AnchorExact(a, lo, hi) /\ Exact(2 * lo.v, 1) => p = lo

\* C10 as amended: for a finite rect, pos_in_rect of the anchored rectangle has
\* rect's min coordinate on every axis aligned Min, and on an axis aligned
\* Center or Max whenever the operations of anchor_rect and of the midpoint on
\* that axis are exact.
C10_Amended ==
    pc = "pos_in_anchored" /\ FiniteRect(rect) =>
        /\ C10_Axis(x(align2), rect.min.x, rect.max.x, ret_vec.x)
        /\ C10_Axis(y(align2), rect.min.y, rect.max.y, ret_vec.y)

\* C10's case: a rectangle anchored by its centre on x and by its max on y, and
\* the anchor point of the result is the min corner it was given.
C10_Witness ==
    /\ pc = "pos_in_anchored" /\ align2 = CENTER_BOTTOM
    /\ rect = RectOf(pos2(Fin(1), Fin(1)), pos2(Fin(-1), Fin(2)))
    /\ ret_rect = RectOf(pos2(Fin(2), Lit0), pos2(Lit0, Fin(1)))
    /\ ret_vec = rect.min

====
